---- MODULE Spec2Model ----
(***************************************************************************)
(* SuiPark Agent backend (services/ai-agent): the /api/parse-intent and    *)
(* /api/recommend-slot request handlers, the start-hour validator and the  *)
(* post-processing of the ranking the language model returns.              *)
(*                                                                         *)
(* Text is a sequence of one-character strings, so that strip(), the       *)
(* HH:mm regular expression, split(':'), int() and strftime() are computed *)
(* character by character.  A value decoded from the model's JSON reply is *)
(* a tagged record [t, v]: the handlers are dynamically typed and branch   *)
(* on None / truthiness / type errors.                                     *)
(***************************************************************************)
EXTENDS Integers, Sequences, FiniteSets, TLC

VARIABLES pc, clock, ticks, request, prompt_time, oracle_calls, oracle_reply,
          validation, response

\* two requests in flight at once: the module-level client object, each
\* handler coroutine's frame, the variable each coroutine keeps the oracle's
\* reply in, and (history) the reply the oracle gave to each
VARIABLES gemini_client, frames, results, delivered

\* building the oracle's conversation context: the request's
\* conversation_history, the context string built from it, and whether it has
\* been built
VARIABLES conversation_history, conversation_context, context_built

\* the state of one request handled alone
seq_vars == <<pc, request, prompt_time, oracle_calls, oracle_reply, validation, response>>

\* the state of the requests handled side by side
conc_vars == <<gemini_client, frames, results, delivered>>

\* the state of the context building
ctx_vars == <<conversation_history, conversation_context, context_built>>

vars == <<pc, clock, ticks, request, prompt_time, oracle_calls, oracle_reply,
          validation, response, gemini_client, frames, results, delivered,
          conversation_history, conversation_context, context_built>>

(* ---------------------------- bounds ---------------------------------- *)

\* minutes the wall clock may advance while the extraction oracle is awaited
MaxTicks == 2

\* length of the lists of ids the ranking oracle's reply is drawn from
MaxRecLen == 3

\* length up to which every conversation history over the sample turns is tried
MaxHistoryLen == 4

(* ------------------------- JSON / Python values ------------------------ *)

None == [t |-> "none", v |-> <<>>]

Str(s) == [t |-> "str", v |-> s]

Num(n) == [t |-> "int", v |-> n]

Bool(b) == [t |-> "bool", v |-> b]

\* a JSON object: d maps its keys to their values
Dict(d) == [t |-> "dict", v |-> d]

\* Python truthiness (bool(x))
Truthy(x) ==
    CASE x.t = "none" -> FALSE
      [] x.t = "str"  -> x.v # <<>>
      [] x.t = "int"  -> x.v # 0
      [] x.t = "bool" -> x.v
      [] x.t = "dict" -> DOMAIN x.v # {}

Whitespace == {" ", "\n", "\t"}

Digits == {"0", "1", "2", "3", "4", "5", "6", "7", "8", "9"}

RECURSIVE LStrip(_)
LStrip(s) ==
    IF s # <<>> /\ Head(s) \in Whitespace THEN LStrip(Tail(s)) ELSE s

RECURSIVE RStrip(_)
RStrip(s) ==
    IF s # <<>> /\ s[Len(s)] \in Whitespace THEN RStrip(SubSeq(s, 1, Len(s) - 1)) ELSE s

\* str.strip()
Strip(s) == RStrip(LStrip(s))

DigitVal(c) ==
    CASE c = "0" -> 0 [] c = "1" -> 1 [] c = "2" -> 2 [] c = "3" -> 3 [] c = "4" -> 4
      [] c = "5" -> 5 [] c = "6" -> 6 [] c = "7" -> 7 [] c = "8" -> 8 [] c = "9" -> 9

DigitChar(n) ==
    CASE n = 0 -> "0" [] n = 1 -> "1" [] n = 2 -> "2" [] n = 3 -> "3" [] n = 4 -> "4"
      [] n = 5 -> "5" [] n = 6 -> "6" [] n = 7 -> "7" [] n = 8 -> "8" [] n = 9 -> "9"

RECURSIVE DecimalValue(_)
DecimalValue(s) ==
    IF s = <<>> THEN 0 ELSE 10 * DecimalValue(SubSeq(s, 1, Len(s) - 1)) + DigitVal(s[Len(s)])

\* int(s) of a decimal literal: surrounding whitespace is ignored; -1 stands
\* for ValueError
ParseInt(s) ==
    LET body == Strip(s)
    IN  IF body # <<>> /\ \A i \in 1..Len(body) : body[i] \in Digits
        THEN DecimalValue(body)
        ELSE -1

\* re.match(r'^\d{2}:\d{2}$', s): without re.MULTILINE, '$' matches at the end
\* of the string and also just before a newline that ends the string
MatchesHHmm(s) ==
    /\ Len(s) \in {5, 6}
    /\ s[1] \in Digits /\ s[2] \in Digits
    /\ s[3] = ":"
    /\ s[4] \in Digits /\ s[5] \in Digits
    /\ Len(s) = 6 => s[6] = "\n"

\* datetime.strftime("%H:%M")
Strftime(now) ==
    << DigitChar(now.h \div 10), DigitChar(now.h % 10), ":",
       DigitChar(now.m \div 10), DigitChar(now.m % 10) >>

(* ----------------------------- messages -------------------------------- *)
(* A message is identified by the literal it is built from (id), the       *)
(* mandatory fields its wording asks the user for (asks) and the values    *)
(* interpolated into it (tok, now).                                        *)

Msg(id, asks, tok, now) == [t |-> "str", id |-> id, asks |-> asks, tok |-> tok, now |-> now]

NoMsg == [t |-> "none", id |-> "", asks |-> {}, tok |-> <<>>, now |-> <<>>]

EmptyMsg == Msg("", {}, <<>>, <<>>)

MsgTruthy(m) == m.t = "str" /\ m.id # ""

FormatErrorMsg == Msg("Invalid time format. Please use HH:mm format (e.g., '14:30').",
                      {"start_hour"}, <<>>, <<>>)

HourErrorMsg == Msg("Invalid hour. Hour must be between 00 and 23.", {"start_hour"}, <<>>, <<>>)

MinuteErrorMsg == Msg("Invalid minute. Minute must be between 00 and 59.", {"start_hour"}, <<>>, <<>>)

PastTimeMsg(tok, now) ==
    Msg("The start time you provided ({start_hour}) is in the past. Please provide a valid start time for today (current time is {current_time_str}).",
        {"start_hour"}, tok, now)

AskAllMsg == Msg("I'd be happy to help you find parking! Could you please tell me where you'd like to park, for how long, and what time you'd like to start? (e.g., 'at 14:30')",
                 {"location", "duration", "start_hour"}, <<>>, <<>>)

AskLocationDurationMsg == Msg("I'd be happy to help you find parking! Could you please tell me where you'd like to park and for how long?",
                              {"location", "duration"}, <<>>, <<>>)

AskLocationStartMsg == Msg("I'd be happy to help you find parking! Could you please tell me where you'd like to park and what time you'd like to start? (e.g., 'at 14:30')",
                           {"location", "start_hour"}, <<>>, <<>>)

AskDurationStartMsg == Msg("I'd be happy to help you find parking! Could you please tell me for how long you need to park and what time you'd like to start? (e.g., 'at 14:30')",
                           {"duration", "start_hour"}, <<>>, <<>>)

AskLocationMsg == Msg("I'd be happy to help you find parking! Could you please tell me where you'd like to park?",
                      {"location"}, <<>>, <<>>)

AskDurationMsg == Msg("I'd be happy to help you find parking! Could you please tell me for how long you need to park?",
                      {"duration"}, <<>>, <<>>)

AskStartMsg == Msg("Perfect! What time would you like to start parking? (e.g., 'at 14:30' or 'at 2pm')",
                   {"start_hour"}, <<>>, <<>>)

GenericMsg == Msg("I need a bit more information to help you find parking. Could you please provide the location, duration, and start time?",
                  {"location", "duration", "start_hour"}, <<>>, <<>>)

\* the message text contains the character sequence x as an interpolated value
Contains(m, x) == x # <<>> /\ (m.tok = x \/ m.now = x)

(* ------------------------- validate_start_hour ------------------------- *)

\* the (is_valid, error_message) pair
Verdict(ok, msg) == [ok |-> ok, msg |-> msg]

\* validate_start_hour with the past-time comparison also rejecting the current minute
validate_start_hour_strict(start_hour, now) ==
    IF start_hour.t = "none" \/ Strip(start_hour.v) = <<>> THEN Verdict(TRUE, NoMsg)
    ELSE IF ~MatchesHHmm(start_hour.v) THEN Verdict(FALSE, FormatErrorMsg)
    ELSE LET hour   == ParseInt(SubSeq(start_hour.v, 1, 2))
             minute == ParseInt(SubSeq(start_hour.v, 4, Len(start_hour.v)))
         IN  IF hour > 23 THEN Verdict(FALSE, HourErrorMsg)
             ELSE IF minute > 59 THEN Verdict(FALSE, MinuteErrorMsg)
             ELSE IF hour < now.h \/ (hour = now.h /\ minute <= now.m)
                  THEN Verdict(FALSE, PastTimeMsg(start_hour.v, Strftime(now)))
                  ELSE Verdict(TRUE, NoMsg)

\* validate_start_hour without the comparison against the clock
validate_start_hour_no_past_check(start_hour, now) ==
    IF start_hour.t = "none" \/ Strip(start_hour.v) = <<>> THEN Verdict(TRUE, NoMsg)
    ELSE IF ~MatchesHHmm(start_hour.v) THEN Verdict(FALSE, FormatErrorMsg)
    ELSE LET hour   == ParseInt(SubSeq(start_hour.v, 1, 2))
             minute == ParseInt(SubSeq(start_hour.v, 4, Len(start_hour.v)))
         IN  IF hour > 23 THEN Verdict(FALSE, HourErrorMsg)
             ELSE IF minute > 59 THEN Verdict(FALSE, MinuteErrorMsg)
             ELSE Verdict(TRUE, NoMsg)

\* start_hour is None or a str (the caller has applied .strip() to it before);
\* now is the datetime.now() taken inside the function
validate_start_hour(start_hour, now) ==
    IF start_hour.t = "none" \/ Strip(start_hour.v) = <<>> THEN Verdict(TRUE, NoMsg)
    ELSE IF ~MatchesHHmm(start_hour.v) THEN Verdict(FALSE, FormatErrorMsg)
    ELSE LET hour   == ParseInt(SubSeq(start_hour.v, 1, 2))
             minute == ParseInt(SubSeq(start_hour.v, 4, Len(start_hour.v)))
         IN  IF hour = -1 \/ minute = -1 THEN Verdict(FALSE, FormatErrorMsg)  \* except ValueError
             ELSE IF hour < 0 \/ hour > 23 THEN Verdict(FALSE, HourErrorMsg)
             ELSE IF minute < 0 \/ minute > 59 THEN Verdict(FALSE, MinuteErrorMsg)
             ELSE IF hour < now.h \/ (hour = now.h /\ minute < now.m)
                  THEN Verdict(FALSE, PastTimeMsg(start_hour.v, Strftime(now)))
                  ELSE Verdict(TRUE, NoMsg)

(* --------------------------- response models --------------------------- *)

\* models.ParseIntentResponse; kind tells the two outcomes of the handler apart
ParseIntentResponse(kind, location_query, duration_minutes, start_hour, max_price, preferences, needs_clarification, clarification_message, is_more_request, requested_radius_km, is_closest_request, is_cheapest_request) ==
    [ kind |-> kind, status |-> 200,
      location_query |-> location_query,
      duration_minutes |-> duration_minutes,
      start_hour |-> start_hour,
      max_price |-> max_price,
      preferences |-> preferences,
      needs_clarification |-> needs_clarification,
      clarification_message |-> clarification_message,
      is_more_request |-> is_more_request,
      requested_radius_km |-> requested_radius_km,
      is_closest_request |-> is_closest_request,
      is_cheapest_request |-> is_cheapest_request ]

\* a placeholder response that leaves the flag unset
create_clarification_response_unflagged(clarification_message) ==
    ParseIntentResponse("Clarification", Str(<<>>), Num(1), None, None, None, Bool(FALSE),
                        clarification_message, Bool(FALSE), None, Bool(FALSE), Bool(FALSE))

create_clarification_response(clarification_message) ==
    ParseIntentResponse("Clarification", Str(<<>>), Num(1), None, None, None, Bool(TRUE),
                        clarification_message, Bool(FALSE), None, Bool(FALSE), Bool(FALSE))

\* raise HTTPException(status_code=status, detail=detail); the detail text is
\* the sequence of the pieces it is put together from
HTTPException(status, detail) == [kind |-> "Error", status |-> status, detail |-> detail]

\* str(e) of the TypeError / AttributeError a malformed oracle value raises
TypeFaultText == "TypeError or AttributeError on a value of the oracle's reply"

\* `except Exception as e`: detail=f"Internal server error: {str(e)}"
InternalServerError(text) == HTTPException(500, <<"Internal server error: ", text>>)

\* what the Gemini call can fail with: the API call raises, or the reply text
\* is no JSON (json.loads and _extract_json_from_response both fail)
OracleErrorSamples ==
    { [kind |-> "api", text |-> "429 quota exceeded for model"],
      [kind |-> "unparsable", text |-> "Expecting value: line 1 column 1 (char 0)"] }

\* str(e) of the ValueError generate_json raises from its `except Exception`
GenerateJsonError(err) ==
    IF err.kind = "unparsable"
    THEN <<"Failed to generate JSON response from Gemini: ", "Invalid JSON response from Gemini: ", err.text>>
    ELSE <<"Failed to generate JSON response from Gemini: ", err.text>>

\* the handlers' `except ValueError as e`: status 400, detail=str(e)
BadRequest(detail) == HTTPException(400, detail)

NoResponse == [kind |-> "None", status |-> 0]

(* ------------------------------ parse_intent --------------------------- *)

\* int(x) < 1 for the numbers json.loads yields (bool is an int in Python)
IntOf(x) == IF x.t = "bool" THEN (IF x.v THEN 1 ELSE 0) ELSE x.v

\* a default prompt chain that ignores which fields are missing
DefaultPrompt_always_all(missing_location, missing_duration, missing_start_hour) == AskAllMsg

\* the single-field tests placed before the two-field ones
DefaultPrompt_singles_first(missing_location, missing_duration, missing_start_hour) ==
    IF missing_location /\ missing_duration /\ missing_start_hour THEN AskAllMsg
    ELSE IF missing_location THEN AskLocationMsg
    ELSE IF missing_duration THEN AskDurationMsg
    ELSE IF missing_start_hour THEN AskStartMsg
    ELSE GenericMsg

\* the if/elif chain that picks the default clarification prompt
DefaultPrompt(missing_location, missing_duration, missing_start_hour) ==
    IF missing_location /\ missing_duration /\ missing_start_hour THEN AskAllMsg
    ELSE IF missing_location /\ missing_duration THEN AskLocationDurationMsg
    ELSE IF missing_location /\ missing_start_hour THEN AskLocationStartMsg
    ELSE IF missing_duration /\ missing_start_hour THEN AskDurationStartMsg
    ELSE IF missing_location THEN AskLocationMsg
    ELSE IF missing_duration THEN AskDurationMsg
    ELSE IF missing_start_hour THEN AskStartMsg
    ELSE GenericMsg

\* an exception other than ValueError raised while the three missing_* flags are
\* computed: TypeError of `duration_minutes < 1` on a str, AttributeError of
\* `.strip()` on a truthy non-str
RaisesTypeFault(result) ==
    \/ result.duration_minutes.t = "str"
    \/ (Truthy(result.location_query) /\ result.location_query.t # "str")
    \/ (Truthy(result.start_hour) /\ result.start_hour.t # "str")

\* missing_duration = duration_minutes is None or duration_minutes < 1
MissingDuration(result) ==
    result.duration_minutes.t = "none" \/ IntOf(result.duration_minutes) < 1

\* missing_location = not location_query or location_query.strip() == ""
MissingLocation(result) ==
    ~Truthy(result.location_query) \/ Strip(result.location_query.v) = <<>>

\* `if start_hour and start_hour.strip():`
StartHourPresent(result) ==
    Truthy(result.start_hour) /\ Strip(result.start_hour.v) # <<>>

\* start_hour_valid, start_hour_error as the if/else around the validator leaves them
StartHourCheck(result, now) ==
    IF StartHourPresent(result) THEN validate_start_hour(result.start_hour, now)
    ELSE Verdict(FALSE, NoMsg)

\* the oracle's clarification_message is never read
ClarificationMessage_drops_oracle(result, check) ==
    IF StartHourPresent(result) /\ ~check.ok THEN check.msg ELSE NoMsg

\* the validator's error is used only when the oracle sent no message of its own
ClarificationMessage_oracle_first(result, check) ==
    IF StartHourPresent(result) /\ ~check.ok /\ ~MsgTruthy(result.clarification_message)
    THEN check.msg
    ELSE result.clarification_message

\* clarification_message after the validation block
ClarificationMessage(result, check) ==
    IF StartHourPresent(result) /\ ~check.ok THEN check.msg
    ELSE result.clarification_message

\* needs_clarification after the validation block (as a truth value)
NeedsClarification(result, check) ==
    (StartHourPresent(result) /\ ~check.ok) \/ Truthy(result.needs_clarification)

\* a clarification that keeps what the oracle extracted
ClarificationOf_keeps_fields(result, msg) ==
    ParseIntentResponse("Clarification", Str(<<>>), Num(1), None, result.max_price,
                        result.preferences, Bool(TRUE), msg, result.is_more_request,
                        result.requested_radius_km, result.is_closest_request,
                        result.is_cheapest_request)

\* response = ParseIntentResponse.create_clarification_response(msg): the
\* oracle's result is not handed over
ClarificationOf(result, msg) == create_clarification_response(msg)

\* the fields of models.Preferences
PreferenceFields == {"covered", "safety_priority", "accessibility", "other"}

\* a conversion that leaves out the free-text field
Preferences_without_other(prefs_dict) ==
    [t |-> "prefs",
     v |-> [k \in PreferenceFields |-> IF k \in DOMAIN prefs_dict /\ k # "other" THEN prefs_dict[k] ELSE None]]

\* Preferences(covered=prefs_dict.get("covered"), safety_priority=...,
\* accessibility=..., other=prefs_dict.get("other"))
Preferences(prefs_dict) ==
    [t |-> "prefs",
     v |-> [k \in PreferenceFields |-> IF k \in DOMAIN prefs_dict THEN prefs_dict[k] ELSE None]]

\* Field(None, ge=0) of max_price and requested_radius_km
NonNegativeOrNone(x) == x.t = "none" \/ (x.t = "int" /\ x.v >= 0)

\* str(e) of the pydantic ValidationError of ParseIntentResponse, a ValueError
ParseIntentResponseErrorText == "1 validation error for ParseIntentResponse"

\* a handler that believes the oracle's own flag
ReturnsClarification_trusts_oracle(needs_clarification, missing_duration, missing_location, missing_start_hour) == needs_clarification

\* `if needs_clarification or missing_duration or missing_location or
\* missing_start_hour:`
ReturnsClarification(needs_clarification, missing_duration, missing_location, missing_start_hour) ==
    needs_clarification \/ missing_duration \/ missing_location \/ missing_start_hour

\* the body of the handler after `await parse_user_intent(...)` has returned
\* result; now is the clock reading validate_start_hour takes
parse_intent(result, now) ==
    IF RaisesTypeFault(result) THEN InternalServerError(TypeFaultText)   \* `except Exception`
    ELSE
    LET missing_duration      == MissingDuration(result)
        missing_location      == MissingLocation(result)
        missing_start_hour    == ~StartHourPresent(result)
        check                 == StartHourCheck(result, now)
        clarification_message == ClarificationMessage(result, check)
        needs_clarification   == NeedsClarification(result, check)
    IN  IF ReturnsClarification(needs_clarification, missing_duration, missing_location, missing_start_hour)
        THEN ClarificationOf(result,
                IF MsgTruthy(clarification_message) THEN clarification_message
                ELSE DefaultPrompt(missing_location, missing_duration, missing_start_hour))
        \* `if result.get("preferences"):` then prefs_dict.get(...) on a non-dict
        ELSE IF Truthy(result.preferences) /\ result.preferences.t # "dict"
        THEN InternalServerError(TypeFaultText)
        \* ParseIntentResponse(...) rejects a negative price or radius
        ELSE IF ~NonNegativeOrNone(result.max_price) \/ ~NonNegativeOrNone(result.requested_radius_km)
        THEN BadRequest(<<ParseIntentResponseErrorText>>)
        ELSE ParseIntentResponse("Complete",
                Str(result.location_query.v),
                Num(IntOf(result.duration_minutes)),
                IF check.ok THEN result.start_hour ELSE None,
                result.max_price,
                IF Truthy(result.preferences) THEN Preferences(result.preferences.v) ELSE None,
                result.needs_clarification,
                clarification_message, result.is_more_request,
                result.requested_radius_km, result.is_closest_request,
                result.is_cheapest_request)

\* what the request did with validate_start_hour: whether it was called, on
\* which token and clock reading, and what it returned
ValidationRecord(result, now) ==
    IF ~RaisesTypeFault(result) /\ StartHourPresent(result)
    THEN [called |-> TRUE, token |-> result.start_hour.v, now |-> now,
          verdict |-> validate_start_hour(result.start_hour, now)]
    ELSE [called |-> FALSE, token |-> <<>>, now |-> now, verdict |-> Verdict(TRUE, NoMsg)]

NoValidation == [called |-> FALSE, token |-> <<>>, now |-> [h |-> 0, m |-> 0],
                 verdict |-> Verdict(TRUE, NoMsg)]

(* ---------------------------- recommend_best_slot ---------------------- *)

\* `x in xs` for a list
InList(x, xs) == \E i \in 1..Len(xs) : xs[i] = x

\* [sid for sid in xs if sid != x]
RECURSIVE Without(_, _)
Without(xs, x) ==
    IF xs = <<>> THEN <<>>
    ELSE IF Head(xs) = x THEN Without(Tail(xs), x)
    ELSE <<Head(xs)>> \o Without(Tail(xs), x)

\* [sid for sid in xs if sid not in ys]
RECURSIVE NotIn(_, _)
NotIn(xs, ys) ==
    IF xs = <<>> THEN <<>>
    ELSE IF InList(Head(xs), ys) THEN NotIn(Tail(xs), ys)
    ELSE <<Head(xs)>> \o NotIn(Tail(xs), ys)

\* [best] + [sid for sid in xs if sid != best]
BestFirst(best, xs) == <<best>> \o Without(xs, best)

\* {r.slot_id: r.score for r in ranking}.get(sid, 0): the last entry of an id wins
RECURSIVE ScoreOf(_, _)
ScoreOf(ranking, sid) ==
    IF ranking = <<>> THEN 0
    ELSE IF ranking[Len(ranking)].slot_id = sid THEN ranking[Len(ranking)].score
    ELSE ScoreOf(SubSeq(ranking, 1, Len(ranking) - 1), sid)

\* -slot_dict[sid].distance_m if sid in slot_dict else 999999, slot_dict being
\* {slot.slot_id: slot for slot in slots}
RECURSIVE NegDistance(_, _)
NegDistance(slots, sid) ==
    IF slots = <<>> THEN 999999
    ELSE IF slots[Len(slots)].slot_id = sid THEN 0 - slots[Len(slots)].distance_m
    ELSE NegDistance(SubSeq(slots, 1, Len(slots) - 1), sid)

\* a sort on the score alone
KeyGreater_score_only(a, b) == a[1] > b[1]

\* tuple comparison of the sort key (score, -distance_m): a > b
KeyGreater(a, b) == a[1] > b[1] \/ (a[1] = b[1] /\ a[2] > b[2])

\* list.sort(key=..., reverse=True): descending and stable
RECURSIVE InsertDesc(_, _, _, _)
InsertDesc(sorted, sid, ranking, slots) ==
    LET key(x) == <<ScoreOf(ranking, x), NegDistance(slots, x)>>
    IN  IF sorted = <<>> THEN <<sid>>
        ELSE IF KeyGreater(key(sid), key(Head(sorted)))
             THEN <<sid>> \o sorted
             ELSE <<Head(sorted)>> \o InsertDesc(Tail(sorted), sid, ranking, slots)

RECURSIVE SortMissing(_, _, _)
SortMissing(missing, ranking, slots) ==
    IF missing = <<>> THEN <<>>
    ELSE InsertDesc(SortMissing(SubSeq(missing, 1, Len(missing) - 1), ranking, slots),
                    missing[Len(missing)], ranking, slots)

\* [slot.slot_id for slot in slots]
AllSlotIds(slots) == [i \in 1..Len(slots) |-> slots[i].slot_id]

\* the safety limit of the normal request
NormalLimit == 10

\* the normal request's cut without the limit
NormalCut_none(rec) == rec

\* `if len(recommended_slot_ids) > 10: recommended_slot_ids = recommended_slot_ids[:10]`
NormalCut(rec) == IF Len(rec) > NormalLimit THEN SubSeq(rec, 1, NormalLimit) ELSE rec

\* no branch for the closest and cheapest requests: they take the normal rules
Mode_more_or_normal(user_intent) ==
    IF user_intent.is_more_request THEN "more" ELSE "normal"

\* the branch order with the closest/cheapest test ahead of the more test
Mode_closest_first(user_intent) ==
    IF user_intent.is_closest_request \/ user_intent.is_cheapest_request THEN "closest_or_cheapest"
    ELSE IF user_intent.is_more_request THEN "more"
    ELSE "normal"

\* which branch of `if is_more_request: ... elif is_closest_request or
\* is_cheapest_request: ... else: ...` the request takes
Mode(user_intent) ==
    IF user_intent.is_more_request THEN "more"
    ELSE IF user_intent.is_closest_request \/ user_intent.is_cheapest_request
         THEN "closest_or_cheapest"
    ELSE "normal"

\* models.RecommendSlotResponse
RecommendSlotResponse(best_slot_id, recommended_slot_ids, ranking, explanation_for_user) ==
    [ kind |-> "Recommendation", status |-> 200,
      best_slot_id |-> best_slot_id,
      recommended_slot_ids |-> recommended_slot_ids,
      ranking |-> ranking,
      explanation_for_user |-> explanation_for_user ]

\* models.SlotRanking: score = Field(..., ge=0, le=1), scores being in tenths
SlotRankingValid(item) == item.score >= 0 /\ item.score <= 10

\* str(e) of the pydantic ValidationError, a ValueError
SlotRankingErrorText == "1 validation error for SlotRanking: score"

\* the function after `await gemini_client.generate_json(...)` has returned result
recommend_best_slot(user_intent, slots, result) ==
    \* ranking = [SlotRanking(**item) for item in result["ranking"]] raises on a
    \* score outside [0, 1]; recommend_slot's `except ValueError` answers 400
    IF \E i \in 1..Len(result.ranking) : ~SlotRankingValid(result.ranking[i])
    THEN BadRequest(<<SlotRankingErrorText>>)
    ELSE
    LET best == result.best_slot_id
        rec0 == result.recommended_slot_ids
        rec1 == IF rec0 = <<>> \/ ~InList(best, rec0) THEN BestFirst(best, rec0) ELSE rec0
        all_slot_ids == AllSlotIds(slots)
        missing_slot_ids == SortMissing(NotIn(all_slot_ids, rec1), result.ranking, slots)
        rec_more == IF Len(rec1) < Len(all_slot_ids) THEN rec1 \o missing_slot_ids ELSE rec1
        front(xs) == IF xs # <<>> /\ xs[1] # best THEN BestFirst(best, xs) ELSE xs
        recommended_slot_ids ==
            IF Mode(user_intent) = "more" THEN front(rec_more)
            ELSE IF Mode(user_intent) = "closest_or_cheapest" THEN front(rec1)
            ELSE NormalCut(rec1)
    IN  RecommendSlotResponse(best, recommended_slot_ids, result.ranking,
                              result.explanation_for_user)

(* ------------------------- inputs of the model ------------------------- *)

\* wall-clock readings a run may start at
ClockSamples == { [h |-> 18, m |-> 52], [h |-> 23, m |-> 59], [h |-> 9, m |-> 5] }

HourTexts == { <<"0", "0">>, <<"0", "9">>, <<"1", "8">>, <<"2", "3">>, <<"2", "4">> }

MinuteTexts == { <<"0", "0">>, <<"0", "5">>, <<"5", "2">>, <<"5", "3">>, <<"5", "9">>, <<"6", "0">> }

\* start_hour values the extraction oracle may return
StartHourSamples ==
    { Str(hh \o <<":">> \o mm) : hh \in HourTexts, mm \in MinuteTexts }
    \cup { Str(<<"2", "3", ":", "5", "9", "\n">>), Str(<<"0", "9", ":", "0", "5", "\n">>),
           Str(<<"9", ":", "0", "5">>), Str(<<"1", "8", ":", "5", "2", " ">>),
           Str(<<"2", "p", "m">>), Str(<<>>), Str(<<" ">>), None, Num(930) }

LocationSamples == { Str(<<"F", "S", "E", "G", "A">>), Str(<<>>), Str(<<" ", " ">>), None, Num(7) }

DurationSamples == { Num(120), Num(1), Num(0), None, Str(<<"2", "h">>) }

\* clarification_message values the extraction oracle may return
OracleMsgSamples ==
    { NoMsg, EmptyMsg,
      Msg("oracle: where and for how long?", {"location", "duration"}, <<>>, <<>>),
      Msg("oracle: when do you want to start?", {"start_hour"}, <<>>, <<>>) }

\* the fields of the reply the handler copies without looking at them
PassThroughSamples ==
    { [max_price |-> None, preferences |-> None, requested_radius_km |-> None,
       is_more_request |-> Bool(FALSE), is_closest_request |-> Bool(FALSE),
       is_cheapest_request |-> Bool(FALSE)],
      [max_price |-> Num(20),
       preferences |-> Dict([covered |-> Bool(TRUE), other |-> Str(<<"e", "v">>)]),
       requested_radius_km |-> Num(3),
       is_more_request |-> Bool(TRUE), is_closest_request |-> Bool(TRUE),
       is_cheapest_request |-> Bool(FALSE)],
      [max_price |-> None,
       preferences |-> Dict([covered |-> Bool(TRUE), valet |-> Bool(TRUE)]),
       requested_radius_km |-> None,
       is_more_request |-> Bool(FALSE), is_closest_request |-> Bool(FALSE),
       is_cheapest_request |-> Bool(FALSE)] }

\* the dictionary parse_user_intent returns (the oracle's JSON reply)
RawIntentGuess(loc, dur, sh, flag, msg, rest) ==
    [ location_query |-> loc, duration_minutes |-> dur, start_hour |-> sh,
      needs_clarification |-> flag, clarification_message |-> msg,
      max_price |-> rest.max_price, preferences |-> rest.preferences,
      requested_radius_km |-> rest.requested_radius_km,
      is_more_request |-> rest.is_more_request,
      is_closest_request |-> rest.is_closest_request,
      is_cheapest_request |-> rest.is_cheapest_request ]

SlotIds == {"s1", "s2", "s3"}

\* an id the oracle may invent
ForeignId == "zz"

\* distance_m of the sample slots (s1 and s3 tie)
DistanceOf(sid) == CASE sid = "s1" -> 150 [] sid = "s2" -> 350 [] sid = "s3" -> 150

ParkingSlot(sid) == [slot_id |-> sid, distance_m |-> DistanceOf(sid)]

\* sequences over S of length at most n
RECURSIVE SeqsUpTo(_, _)
SeqsUpTo(S, n) ==
    IF n = 0 THEN {<<>>}
    ELSE LET shorter == SeqsUpTo(S, n - 1)
         IN  shorter \cup { <<x>> \o xs : x \in S, xs \in { ys \in shorter : Len(ys) = n - 1 } }

NoRepeat(xs) == \A i, j \in 1..Len(xs) : xs[i] = xs[j] => i = j

\* request.slots: any list of slots with pairwise different ids, the empty one included
SlotListSamples ==
    { [i \in 1..Len(ids) |-> ParkingSlot(ids[i])] :
        ids \in { xs \in SeqsUpTo(SlotIds, Cardinality(SlotIds)) : NoRepeat(xs) } }

\* recommended_slot_ids of the ranking oracle: every short list over the
\* candidate ids and a foreign id, and some lists longer than the normal limit
RecListSamples ==
    SeqsUpTo(SlotIds \cup {ForeignId}, MaxRecLen)
    \cup { <<"s1", "s2", "s3", "s1", "s2", "s3", "s1", "s2", "s3", "s1", "s2">>,
           <<"s1", "s1", "s1", "s1", "s1", "s1", "s1", "s1", "s1", "s1", "s2", "s3">>,
           <<"s2", "s2", "s2", "s2", "s2", "s2", "s2", "s2", "s2", "s2", "s2">> }

\* ranking of the oracle; a score is given in tenths (9 is 0.9)
RankingSamples ==
    { <<>>,
      << [slot_id |-> "s1", score |-> 9], [slot_id |-> "s2", score |-> 5] >>,
      << [slot_id |-> "s3", score |-> 5], [slot_id |-> "s2", score |-> 5],
         [slot_id |-> "s1", score |-> 2] >> }

\* explanation_for_user of the oracle
ExplanationSample == <<"s", "1", " ", "i", "s", " ", "c", "l", "o", "s", "e", "s", "t", " ">>

\* rankings with a score outside [0, 1]
BadRankingSamples ==
    { << [slot_id |-> "s1", score |-> 15] >>,
      << [slot_id |-> "s1", score |-> 9], [slot_id |-> "s2", score |-> 0 - 1] >> }

\* the lists a reply with such a ranking is sampled with
BadRankingRecSamples == { <<>>, <<"s1">>, <<"s1", "s2">> }

\* the ranking oracle's replies: every list with every sound ranking, and a
\* few lists with the rankings whose score is out of range
RankingResultSamples ==
    { [best_slot_id |-> best, recommended_slot_ids |-> rec, ranking |-> ranking, explanation_for_user |-> ExplanationSample] :
        best \in SlotIds \cup {ForeignId}, rec \in RecListSamples, ranking \in RankingSamples }
    \cup
    { [best_slot_id |-> best, recommended_slot_ids |-> rec, ranking |-> ranking, explanation_for_user |-> ExplanationSample] :
        best \in {"s1"}, rec \in BadRankingRecSamples, ranking \in BadRankingSamples }

NoRequest == [op |-> "none"]

NoReply == [ok |-> FALSE, tag |-> "none"]

\* replies of generate_text: the text of the model's answer
TextSamples ==
    { <<"O", "k">>, <<" ", "O", "k", "\n">>, <<"O", " ", "k", " ">>, <<"\n">>, <<>> }

\* a client that calls the model a second time within one generate_* call
InvokeOracle_with_retry(calls) == calls + 2

\* GeminiClient.generate_json / generate_text: the one
\* self.model.generate_content(...) of the call; the JSON fallback extraction
\* and the except clause make no further call
InvokeOracle(calls) == calls + 1

\* generate_text wraps every failure in a ValueError
GenerateTextError(err) == <<"Failed to generate text response from Gemini: ", err.text>>

\* GenerateUserMessageResponse(message=message), message being
\* generate_text's response.text.strip() stripped again by generate_user_message
GenerateUserMessageResponse(text) == [kind |-> "Message", status |-> 200, message |-> Strip(Strip(text))]

\* conversation_context = "": nothing is put in the prompt
NoContext == [header |-> FALSE, lines |-> <<>>]

\* the coroutines of two requests the event loop holds at once
Handlers == {"h1", "h2"}

\* gemini_client = GeminiClient(): the model name and the temperature (in
\* tenths) that __init__ takes from the settings
GeminiClient == [model |-> "gemini-2.5-flash", temperature |-> 3]

\* a coroutine that has not started
NoFrame == [pc |-> "idle", op |-> "none", overlap |-> FALSE]

(* ------------------------------- actions ------------------------------- *)

Init ==
    /\ pc = "idle"
    /\ clock \in ClockSamples
    /\ ticks = 0
    /\ request = NoRequest
    /\ prompt_time = <<>>
    /\ oracle_calls = 0
    /\ oracle_reply = NoReply
    /\ validation = NoValidation
    /\ response = NoResponse
    /\ gemini_client = GeminiClient
    /\ frames = [h \in Handlers |-> NoFrame]
    /\ results = [h \in Handlers |-> NoReply]
    /\ delivered = [h \in Handlers |-> NoReply]
    /\ conversation_history = <<>>
    /\ conversation_context = NoContext
    /\ context_built = FALSE

\* one minute of wall-clock time passes while the oracle call is awaited
Tick ==
    /\ pc = "await_extract"
    /\ ticks < MaxTicks
    /\ ticks' = ticks + 1
    /\ clock' = IF clock.m < 59 THEN [clock EXCEPT !.m = @ + 1]
                ELSE [h |-> (clock.h + 1) % 24, m |-> 0]
    /\ UNCHANGED <<pc, request, prompt_time, oracle_calls, oracle_reply, validation, response>>
    /\ UNCHANGED conc_vars
    /\ UNCHANGED ctx_vars

\* POST /api/parse-intent up to the await: parse_user_intent reads the clock
\* for the prompt and calls gemini_client.generate_json
ParseIntentCall ==
    /\ pc = "idle"
    /\ pc' = "await_extract"
    /\ request' = [op |-> "parse_intent"]
    /\ prompt_time' = Strftime(clock)
    /\ oracle_calls' = InvokeOracle(oracle_calls)
    /\ UNCHANGED <<clock, ticks, oracle_reply, validation, response>>
    /\ UNCHANGED conc_vars
    /\ UNCHANGED ctx_vars

\* generate_json returns the decoded reply and the handler runs to its return
ParseIntentReturn ==
    /\ pc = "await_extract"
    /\ \E loc \in LocationSamples, dur \in DurationSamples, sh \in StartHourSamples,
          flag \in {Bool(TRUE), Bool(FALSE)}, msg \in OracleMsgSamples,
          rest \in PassThroughSamples :
            LET result == RawIntentGuess(loc, dur, sh, flag, msg, rest)
            IN  /\ oracle_reply' = [ok |-> TRUE, tag |-> "intent", result |-> result]
                /\ validation' = ValidationRecord(result, clock)
                /\ response' = parse_intent(result, clock)
    /\ pc' = "done"
    /\ UNCHANGED <<clock, ticks, request, prompt_time, oracle_calls>>
    /\ UNCHANGED conc_vars
    /\ UNCHANGED ctx_vars

\* generate_json raises ValueError (API error or unparsable reply); the handler's
\* `except ValueError` answers 400
ParseIntentOracleFails ==
    /\ pc = "await_extract"
    /\ \E err \in OracleErrorSamples :
          /\ oracle_reply' = [ok |-> FALSE, tag |-> "intent", error |-> err]
          /\ response' = BadRequest(GenerateJsonError(err))
    /\ pc' = "done"
    /\ UNCHANGED <<clock, ticks, request, prompt_time, oracle_calls, validation>>
    /\ UNCHANGED conc_vars
    /\ UNCHANGED ctx_vars

\* POST /api/recommend-slot up to the await: recommend_best_slot builds the
\* prompt from the intent and the slots and calls gemini_client.generate_json
RecommendSlotCall ==
    /\ pc = "idle"
    /\ \E more \in BOOLEAN, closest \in BOOLEAN, cheapest \in BOOLEAN, slots \in SlotListSamples :
          request' = [ op |-> "recommend_slot",
                       user_intent |-> [ is_more_request |-> more,
                                         is_closest_request |-> closest,
                                         is_cheapest_request |-> cheapest ],
                       slots |-> slots ]
    /\ pc' = "await_rank"
    /\ oracle_calls' = InvokeOracle(oracle_calls)
    /\ UNCHANGED <<clock, ticks, prompt_time, oracle_reply, validation, response>>
    /\ UNCHANGED conc_vars
    /\ UNCHANGED ctx_vars

\* generate_json returns the decoded reply and recommend_best_slot runs to its return
RecommendSlotReturn ==
    /\ pc = "await_rank"
    /\ \E result \in RankingResultSamples :
          /\ oracle_reply' = [ok |-> TRUE, tag |-> "ranking", result |-> result]
          /\ response' = recommend_best_slot(request.user_intent, request.slots, result)
    /\ pc' = "done"
    /\ UNCHANGED <<clock, ticks, request, prompt_time, oracle_calls, validation>>
    /\ UNCHANGED conc_vars
    /\ UNCHANGED ctx_vars

\* generate_json raises ValueError; recommend_slot's `except ValueError` answers 400
RecommendSlotOracleFails ==
    /\ pc = "await_rank"
    /\ \E err \in OracleErrorSamples :
          /\ oracle_reply' = [ok |-> FALSE, tag |-> "ranking", error |-> err]
          /\ response' = BadRequest(GenerateJsonError(err))
    /\ pc' = "done"
    /\ UNCHANGED <<clock, ticks, request, prompt_time, oracle_calls, validation>>
    /\ UNCHANGED conc_vars
    /\ UNCHANGED ctx_vars

\* POST /api/generate-user-message up to the await: generate_user_message
\* builds the prompt from the best slot and the intent and calls
\* gemini_client.generate_text
GenerateUserMessageCall ==
    /\ pc = "idle"
    /\ \E sid \in SlotIds, dur \in {1, 120} :
          request' = [ op |-> "generate_user_message",
                       best_slot |-> [slot_id |-> sid, distance_m |-> DistanceOf(sid)],
                       user_intent |-> [duration_minutes |-> dur] ]
    /\ pc' = "await_text"
    /\ oracle_calls' = InvokeOracle(oracle_calls)
    /\ UNCHANGED <<clock, ticks, prompt_time, oracle_reply, validation, response>>
    /\ UNCHANGED conc_vars
    /\ UNCHANGED ctx_vars

\* generate_text returns the answer's text and the handler runs to its return
GenerateUserMessageReturn ==
    /\ pc = "await_text"
    /\ \E text \in TextSamples :
          /\ oracle_reply' = [ok |-> TRUE, tag |-> "message", result |-> text]
          /\ response' = GenerateUserMessageResponse(text)
    /\ pc' = "done"
    /\ UNCHANGED <<clock, ticks, request, prompt_time, oracle_calls, validation>>
    /\ UNCHANGED conc_vars
    /\ UNCHANGED ctx_vars

\* generate_text raises ValueError; the endpoint's `except ValueError` answers 400
GenerateUserMessageOracleFails ==
    /\ pc = "await_text"
    /\ \E err \in {e \in OracleErrorSamples : e.kind = "api"} :
          /\ oracle_reply' = [ok |-> FALSE, tag |-> "message", error |-> err]
          /\ response' = BadRequest(GenerateTextError(err))
    /\ pc' = "done"
    /\ UNCHANGED <<clock, ticks, request, prompt_time, oracle_calls, validation>>
    /\ UNCHANGED conc_vars
    /\ UNCHANGED ctx_vars

Next ==
    \/ Tick
    \/ ParseIntentCall
    \/ ParseIntentReturn
    \/ ParseIntentOracleFails
    \/ RecommendSlotCall
    \/ RecommendSlotReturn
    \/ RecommendSlotOracleFails
    \/ GenerateUserMessageCall
    \/ GenerateUserMessageReturn
    \/ GenerateUserMessageOracleFails

Spec == Init /\ [][Next]_vars

(* ------------------- two requests handled side by side ------------------ *)

\* requests the two coroutines may be started with
ConcRequestSamples ==
    { [op |-> "parse_intent"],
      [op |-> "recommend_slot",
       user_intent |-> [is_more_request |-> FALSE, is_closest_request |-> FALSE,
                        is_cheapest_request |-> FALSE],
       slots |-> <<ParkingSlot("s1"), ParkingSlot("s2")>>],
      [op |-> "recommend_slot",
       user_intent |-> [is_more_request |-> TRUE, is_closest_request |-> FALSE,
                        is_cheapest_request |-> FALSE],
       slots |-> <<ParkingSlot("s1"), ParkingSlot("s2"), ParkingSlot("s3")>>] }

\* replies the oracle may give to a request of the given operation
ConcReplySamples(op) ==
    IF op = "parse_intent"
    THEN { [ok |-> TRUE, tag |-> "intent", result |-> RawIntentGuess(loc, Num(120), sh, Bool(FALSE), NoMsg, rest)] :
             loc \in {Str(<<"F", "S", "E", "G", "A">>), None},
             sh \in {Str(<<"2", "3", ":", "5", "9">>), Str(<<"1", "8", ":", "5", "3">>)},
             rest \in {r \in PassThroughSamples : r.preferences = None} }
    ELSE { [ok |-> TRUE, tag |-> "ranking", result |-> [best_slot_id |-> best, recommended_slot_ids |-> rec, ranking |-> <<>>, explanation_for_user |-> ExplanationSample]] :
             best \in {"s1", "s2"}, rec \in {<<"s1">>, <<"s2", "s1">>} }

\* a frame that keeps the oracle's reply in a variable every coroutine shares
ResultSlot_shared(h) == CHOOSE g \in Handlers : TRUE

\* where coroutine h keeps `result = await ...generate_json(...)`: a local
\* variable of its own frame
ResultSlot(h) == h

\* gen_config = {"temperature": self.temperature}: a dict built by each call
GenConfig(client) == [temperature |-> client.temperature]

\* result.get(key, default) on a dictionary without the intent's keys: every
\* field None, the flags at their defaults
IntentDict(result) ==
    IF "location_query" \in DOMAIN result THEN result
    ELSE RawIntentGuess(None, None, None, Bool(FALSE), NoMsg,
                        [max_price |-> None, preferences |-> None, requested_radius_km |-> None,
                         is_more_request |-> Bool(FALSE), is_closest_request |-> Bool(FALSE),
                         is_cheapest_request |-> Bool(FALSE)])

\* what the handler answers from its request, the reply held in its `result`
\* and the clock: parse_intent reads the reply with .get, recommend_best_slot
\* with result["ranking"] (KeyError -> 500), and a `result` holding no
\* dictionary is a fault of the `except Exception` kind
Outcome(req, reply, now) ==
    IF reply.tag = "none" THEN InternalServerError(TypeFaultText)
    ELSE IF req.op = "parse_intent" THEN parse_intent(IntentDict(reply.result), now)
    ELSE IF "ranking" \in DOMAIN reply.result
         THEN recommend_best_slot(req.user_intent, req.slots, reply.result)
    ELSE InternalServerError("'ranking'")

\* coroutine h starts on a request and runs up to the oracle call
ConcCall(h) ==
    /\ frames[h].pc = "idle"
    /\ \E req \in ConcRequestSamples :
          frames' = [frames EXCEPT ![h] = [ pc |-> "await", op |-> req.op, request |-> req,
                                            gen_config |-> GenConfig(gemini_client),
                                            overlap |-> FALSE, now |-> clock,
                                            response |-> NoResponse ]]
    /\ UNCHANGED <<clock, ticks, gemini_client, results, delivered>>
    /\ UNCHANGED seq_vars
    /\ UNCHANGED ctx_vars

\* the oracle's reply to h arrives and is assigned to h's `result`
ConcOracleReplies(h) ==
    /\ frames[h].pc = "await"
    /\ \E reply \in ConcReplySamples(frames[h].op) :
          /\ results' = [results EXCEPT ![ResultSlot(h)] = reply]
          /\ delivered' = [delivered EXCEPT ![h] = reply]
    /\ frames' = [frames EXCEPT ![h].pc = "replied",
                                ![h].overlap = \E g \in Handlers \ {h} : frames[g].pc = "replied"]
    /\ UNCHANGED <<clock, ticks, gemini_client>>
    /\ UNCHANGED seq_vars
    /\ UNCHANGED ctx_vars

\* the oracle call of h raises: ValueError, answered 400
ConcOracleFails(h) ==
    /\ frames[h].pc = "await"
    /\ \E err \in OracleErrorSamples :
          /\ delivered' = [delivered EXCEPT ![h] = [ok |-> FALSE, tag |-> "failed", error |-> err]]
          /\ frames' = [frames EXCEPT ![h].pc = "done", ![h].now = clock,
                                      ![h].response = BadRequest(GenerateJsonError(err))]
    /\ UNCHANGED <<clock, ticks, gemini_client, results>>
    /\ UNCHANGED seq_vars
    /\ UNCHANGED ctx_vars

\* h runs from the reply to its return: validation against the clock, the
\* list rules, the response
ConcReturn(h) ==
    /\ frames[h].pc = "replied"
    /\ frames' = [frames EXCEPT ![h].pc = "done", ![h].now = clock,
                                ![h].response = Outcome(frames[h].request, results[ResultSlot(h)], clock)]
    /\ UNCHANGED <<clock, ticks, gemini_client, results, delivered>>
    /\ UNCHANGED seq_vars
    /\ UNCHANGED ctx_vars

\* one minute passes while some request is in flight
ConcTick ==
    /\ \E h \in Handlers : frames[h].pc \in {"await", "replied"}
    /\ ticks < MaxTicks
    /\ ticks' = ticks + 1
    /\ clock' = IF clock.m < 59 THEN [clock EXCEPT !.m = @ + 1]
                ELSE [h |-> (clock.h + 1) % 24, m |-> 0]
    /\ UNCHANGED conc_vars
    /\ UNCHANGED seq_vars
    /\ UNCHANGED ctx_vars

NextConc ==
    \/ ConcTick
    \/ \E h \in Handlers : ConcCall(h)
    \/ \E h \in Handlers : ConcOracleReplies(h)
    \/ \E h \in Handlers : ConcOracleFails(h)
    \/ \E h \in Handlers : ConcReturn(h)

SpecConc == Init /\ [][NextConc]_vars

(* ------------------ the conversation context of the prompt --------------- *)

\* Maximum messages to include in context
CONVERSATION_HISTORY_WINDOW == 10

\* Maximum characters in context
MAX_CONTEXT_LENGTH == 2000

\* a turn of the history: who spoke, and the text, given by the place of the
\* turn in the conversation and its length in characters
Turn(is_user, id, len) == [is_user |-> is_user, text |-> [id |-> id, len |-> len]]

\* the kinds of turn tried: a short user message, an AI answer of 995
\* characters (a line of 1000), a user message of 1993 (a line of 2000) and
\* one of 1994 (a line of 2001)
TurnKinds == { [is_user |-> TRUE, len |-> 3], [is_user |-> FALSE, len |-> 995],
               [is_user |-> TRUE, len |-> 1993], [is_user |-> TRUE, len |-> 1994] }

\* a history of n short user messages with one long AI answer at place k
LongHistory(n, k) ==
    [i \in 1..n |-> IF i = k THEN Turn(FALSE, i, 995) ELSE Turn(TRUE, i, 3)]

\* request.conversation_history: every history up to MaxHistoryLen turns
\* over the kinds, and histories around the window of 10
HistorySamples ==
    { [i \in 1..Len(ks) |-> Turn(ks[i].is_user, i, ks[i].len)] : ks \in SeqsUpTo(TurnKinds, MaxHistoryLen) }
    \cup { LongHistory(n, k) : n \in 9..12, k \in 0..3 }

\* role = "User" if msg.get("is_user", True) else "AI"
Role(msg) == IF msg.is_user THEN <<"U", "s", "e", "r">> ELSE <<"A", "I">>

\* msg_str = f"{role}: {text}\n"
MsgStr(msg) == [role |-> Role(msg), text |-> msg.text]

\* len(msg_str)
MsgStrLen(msg_str) == Len(msg_str.role) + 2 + msg_str.text.len + 1

\* conversation_history[-CONVERSATION_HISTORY_WINDOW:]
RecentHistory(history) ==
    IF Len(history) <= CONVERSATION_HISTORY_WINDOW THEN history
    ELSE SubSeq(history, Len(history) - CONVERSATION_HISTORY_WINDOW + 1, Len(history))

\* reversed(xs)
Reversed(xs) == [i \in 1..Len(xs) |-> xs[Len(xs) + 1 - i]]

\* a loop that skips the turn that does not fit and goes on to older ones
RECURSIVE ContextParts_skipping(_, _, _)
ContextParts_skipping(msgs, context_parts, total_length) ==
    IF msgs = <<>> THEN context_parts
    ELSE LET msg_str == MsgStr(Head(msgs))
         IN  IF total_length + MsgStrLen(msg_str) > MAX_CONTEXT_LENGTH
             THEN ContextParts_skipping(Tail(msgs), context_parts, total_length)
             ELSE ContextParts_skipping(Tail(msgs), Append(context_parts, msg_str),
                                        total_length + MsgStrLen(msg_str))

\* `for msg in reversed(recent_history):` with its break, msgs being what is
\* left of the reversed history
RECURSIVE ContextParts(_, _, _)
ContextParts(msgs, context_parts, total_length) ==
    IF msgs = <<>> THEN context_parts
    ELSE LET msg_str == MsgStr(Head(msgs))
         IN  IF total_length + MsgStrLen(msg_str) > MAX_CONTEXT_LENGTH
             THEN context_parts
             ELSE ContextParts(Tail(msgs), Append(context_parts, msg_str),
                               total_length + MsgStrLen(msg_str))

\* conversation_context as parse_user_intent builds it: the header and
\* "".join(reversed(context_parts)), or "" when nothing is retained
ConversationContext(history) ==
    IF history = <<>> THEN NoContext
    ELSE LET context_parts == ContextParts(Reversed(RecentHistory(history)), <<>>, 0)
         IN  IF context_parts = <<>> THEN NoContext
             ELSE [header |-> TRUE, lines |-> Reversed(context_parts)]

\* a parse-intent request arrives with its conversation history
InitContext ==
    /\ pc = "idle"
    /\ clock = [h |-> 18, m |-> 52]
    /\ ticks = 0
    /\ request = NoRequest
    /\ prompt_time = <<>>
    /\ oracle_calls = 0
    /\ oracle_reply = NoReply
    /\ validation = NoValidation
    /\ response = NoResponse
    /\ gemini_client = GeminiClient
    /\ frames = [h \in Handlers |-> NoFrame]
    /\ results = [h \in Handlers |-> NoReply]
    /\ delivered = [h \in Handlers |-> NoReply]
    /\ conversation_history \in HistorySamples
    /\ conversation_context = NoContext
    /\ context_built = FALSE

\* parse_user_intent builds the context of the prompt
BuildContext ==
    /\ ~context_built
    /\ conversation_context' = ConversationContext(conversation_history)
    /\ context_built' = TRUE
    /\ UNCHANGED <<clock, ticks, conversation_history>>
    /\ UNCHANGED seq_vars
    /\ UNCHANGED conc_vars

NextContext == BuildContext

SpecContext == InitContext /\ [][NextContext]_vars

(* ======================================================================= *)
(*                         properties of the handlers                      *)
(* ======================================================================= *)

\* the ranking oracle replied to a recommend-slot request and the request ended
RankReplied == pc = "done" /\ oracle_reply.tag = "ranking" /\ oracle_reply.ok

\* ... and the request was answered with a recommendation
RankDone == RankReplied /\ response.kind = "Recommendation"

\* a parse-intent request has been answered from a reply of the extraction oracle
IntentDone == pc = "done" /\ oracle_reply.tag = "intent" /\ oracle_reply.ok

CandidateIds == { request.slots[i].slot_id : i \in 1..Len(request.slots) }

Elems(xs) == { xs[i] : i \in 1..Len(xs) }

\* the text is two digits, a colon, two digits
IsHHmmText(s) ==
    /\ Len(s) = 5
    /\ s[1] \in Digits /\ s[2] \in Digits /\ s[3] = ":" /\ s[4] \in Digits /\ s[5] \in Digits

TokHour(s) == 10 * DigitVal(s[1]) + DigitVal(s[2])

TokMinute(s) == 10 * DigitVal(s[4]) + DigitVal(s[5])

\* a well-formed HH:mm token: the shape, hour 0..23, minute 0..59
WellFormed(s) == IsHHmmText(s) /\ TokHour(s) <= 23 /\ TokMinute(s) <= 59

NotEarlier(s, now) == 60 * TokHour(s) + TokMinute(s) >= 60 * now.h + now.m

\* the oracle's guess has the JSON types of the reply schema
TypedGuess(g) ==
    /\ g.location_query.t \in {"none", "str"}
    /\ g.duration_minutes.t \in {"none", "int"}
    /\ g.start_hour.t \in {"none", "str"}

LocationGiven(g) == g.location_query.t = "str" /\ Strip(g.location_query.v) # <<>>

DurationGiven(g) == g.duration_minutes.t = "int" /\ g.duration_minutes.v >= 1

StartHourBlank(g) ==
    g.start_hour.t = "none" \/ (g.start_hour.t = "str" /\ Strip(g.start_hour.v) = <<>>)

StartHourGivenValid(g, now) ==
    g.start_hour.t = "str" /\ WellFormed(g.start_hour.v) /\ NotEarlier(g.start_hour.v, now)

StartHourGivenPast(g, now) ==
    g.start_hour.t = "str" /\ WellFormed(g.start_hour.v) /\ ~NotEarlier(g.start_hour.v, now)

\* C1: the answer of recommend_best_slot carries a best_slot_id and
\* recommended_slot_ids that are ids of the request's candidate slots (stated
\* for a request with at least one candidate slot)
C1_OnlyCandidateIds ==
    (RankDone /\ response.kind = "Recommendation" /\ request.slots # <<>>)
        => /\ response.best_slot_id \in CandidateIds
           /\ Elems(response.recommended_slot_ids) \subseteq CandidateIds

\* C2: recommended_slot_ids of the answer holds no id twice (stated for an
\* oracle reply that names candidate ids only)
C2_NoDuplicateIds ==
    ( /\ RankDone /\ response.kind = "Recommendation"
      /\ oracle_reply.result.best_slot_id \in CandidateIds
      /\ Elems(oracle_reply.result.recommended_slot_ids) \subseteq CandidateIds )
        => NoRepeat(response.recommended_slot_ids)

\* C3: the first element of the answer's recommended_slot_ids is its
\* best_slot_id (stated for an oracle reply that names candidate ids only,
\* none of them twice)
C3_BestSlotFirst ==
    ( /\ RankDone /\ response.kind = "Recommendation"
      /\ oracle_reply.result.best_slot_id \in CandidateIds
      /\ Elems(oracle_reply.result.recommended_slot_ids) \subseteq CandidateIds
      /\ NoRepeat(oracle_reply.result.recommended_slot_ids) )
        => /\ response.recommended_slot_ids # <<>>
           /\ response.recommended_slot_ids[1] = response.best_slot_id

\* C4: in More mode, when the oracle's recommended_slot_ids is a subset of the
\* K >= 1 candidate ids (no id twice), the answer lists exactly K ids, every
\* candidate id once, best_slot_id first
C4_MoreListsEveryCandidateOnce ==
    ( /\ RankDone /\ response.kind = "Recommendation"
      /\ request.user_intent.is_more_request
      /\ request.slots # <<>>
      /\ Elems(oracle_reply.result.recommended_slot_ids) \subseteq CandidateIds
      /\ NoRepeat(oracle_reply.result.recommended_slot_ids) )
        => /\ Len(response.recommended_slot_ids) = Len(request.slots)
           /\ Elems(response.recommended_slot_ids) = CandidateIds
           /\ NoRepeat(response.recommended_slot_ids)
           /\ response.recommended_slot_ids[1] = response.best_slot_id

\* C5: a Complete intent carries a start_hour that is a well-formed HH:mm text
\* not earlier than the clock at validation, a duration of at least 1 and a
\* location that is not blank
C5_CompleteIntentIsValid ==
    (IntentDone /\ response.kind = "Complete")
        => /\ response.start_hour.t = "str"
           /\ WellFormed(response.start_hour.v)
           /\ NotEarlier(response.start_hour.v, clock)
           /\ response.duration_minutes.t = "int" /\ response.duration_minutes.v >= 1
           /\ response.location_query.t = "str" /\ Strip(response.location_query.v) # <<>>

\* C6: a well-formed start hour earlier than the clock makes parse_intent answer
\* with a Clarification, whatever the other fields and the oracle's flag are
C6_PastStartHourForcesClarification ==
    (IntentDone /\ TypedGuess(oracle_reply.result)
                /\ StartHourGivenPast(oracle_reply.result, clock))
        => response.kind = "Clarification"

C6_Witness ==
    /\ IntentDone
    /\ StartHourGivenPast(oracle_reply.result, clock)
    /\ LocationGiven(oracle_reply.result) /\ DurationGiven(oracle_reply.result)
    /\ oracle_reply.result.needs_clarification = Bool(FALSE)
    /\ oracle_reply.result.clarification_message = NoMsg
    /\ response.kind = "Clarification"

\* the one mandatory field the guess lacks, the other two being given and valid
OnlyMissing(g, now) ==
    IF ~LocationGiven(g) /\ g.location_query.t \in {"none", "str"}
         /\ DurationGiven(g) /\ StartHourGivenValid(g, now) THEN {"location"}
    ELSE IF LocationGiven(g) /\ ~DurationGiven(g) /\ g.duration_minutes.t \in {"none", "int"}
         /\ StartHourGivenValid(g, now) THEN {"duration"}
    ELSE IF LocationGiven(g) /\ DurationGiven(g) /\ StartHourBlank(g) THEN {"start_hour"}
    ELSE {}

\* C7 as claimed: when exactly one of location, duration and start hour is
\* missing, the Clarification asks for that field only, whatever the oracle's
\* own clarification_message is
C7_AsksOnlyForMissingField_AnyOracleMessage ==
    (IntentDone /\ OnlyMissing(oracle_reply.result, clock) # {})
        => /\ response.kind = "Clarification"
           /\ response.clarification_message.asks = OnlyMissing(oracle_reply.result, clock)

\* C7 (amended): when exactly one of location, duration and start hour is
\* missing and the oracle sent no clarification_message (null or empty), the
\* Clarification asks for that field only
C7_AsksOnlyForMissingField ==
    ( /\ IntentDone /\ OnlyMissing(oracle_reply.result, clock) # {}
      /\ ~MsgTruthy(oracle_reply.result.clarification_message) )
        => /\ response.kind = "Clarification"
           /\ response.clarification_message.asks = OnlyMissing(oracle_reply.result, clock)

C7_Witness ==
    /\ IntentDone
    /\ OnlyMissing(oracle_reply.result, clock) = {"start_hour"}
    /\ oracle_reply.result.clarification_message = NoMsg
    /\ oracle_reply.result.needs_clarification = Bool(FALSE)
    /\ response.kind = "Clarification"
    /\ response.clarification_message = AskStartMsg

\* C8: validate_start_hour accepts a token of the shape dd:dd with hour 0..23
\* and minute 0..59 exactly when it is not earlier than the clock reading it
\* takes; the current minute itself is accepted
C8_AcceptsIffNotEarlier ==
    (validation.called /\ WellFormed(validation.token))
        => (validation.verdict.ok <=> NotEarlier(validation.token, validation.now))

C8_Witness ==
    /\ validation.called
    /\ validation.now = clock
    /\ validation.token = Strftime(clock)
    /\ validation.verdict.ok

\* C9: when validate_start_hour rejects the token, the Clarification's message
\* is the validator's message, whatever the oracle sent and whichever fields
\* are missing; a past-time rejection names the token and the current time
C9_ValidatorMessageWins ==
    (IntentDone /\ validation.called /\ ~validation.verdict.ok)
        => /\ response.kind = "Clarification"
           /\ response.clarification_message = validation.verdict.msg
           /\ MsgTruthy(response.clarification_message)
           /\ StartHourGivenPast(oracle_reply.result, clock)
                => /\ Contains(response.clarification_message, oracle_reply.result.start_hour.v)
                   /\ Contains(response.clarification_message, Strftime(clock))

C9_Witness ==
    /\ IntentDone /\ validation.called /\ ~validation.verdict.ok
    /\ StartHourGivenPast(oracle_reply.result, clock)
    /\ MsgTruthy(oracle_reply.result.clarification_message)
    /\ ~LocationGiven(oracle_reply.result) /\ ~DurationGiven(oracle_reply.result)
    /\ response.kind = "Clarification"
    /\ response.clarification_message.tok = oracle_reply.result.start_hour.v

\* C10: a recommend request with no candidate slot is answered with an error
\* and the ranking oracle is not called for it
C10_EmptyCandidatesRejected ==
    (request.op = "recommend_slot" /\ request.slots = <<>>)
        => /\ oracle_calls = 0
           /\ pc = "done" => response.kind = "Error"

\* a field of the guess is not of the JSON type the reply schema asks for
MalformedGuess(g) ==
    \/ g.duration_minutes.t \notin {"none", "int"}
    \/ g.location_query.t \notin {"none", "str"}
    \/ g.start_hour.t \notin {"none", "str"}

\* C11: a guess with a malformed field (a duration that is no number, a
\* location or start hour that is no string) is answered with a Clarification,
\* the field counting as missing; the request does not end in an error
C11_MalformedFieldCountsAsMissing ==
    (IntentDone /\ MalformedGuess(oracle_reply.result))
        => response.kind = "Clarification"

\* the external oracle call of the request failed or returned unparsable output
OracleFailed == pc = "done" /\ oracle_reply.tag # "none" /\ ~oracle_reply.ok

\* C12: an oracle failure ends the request in an internal error (5xx) whose
\* message does not contain the oracle's error text; it is never a 4xx and
\* never a successful answer
C12_OracleFailureIsGenericInternalError ==
    OracleFailed
        => /\ response.kind = "Error"
           /\ response.status >= 500
           /\ oracle_reply.error.text \notin Elems(response.detail)

\* none of the more / closest / cheapest flags of the request is set
NormalRequest ==
    /\ ~request.user_intent.is_more_request
    /\ ~request.user_intent.is_closest_request
    /\ ~request.user_intent.is_cheapest_request

\* the oracle's list after the best-id normalization: best_slot_id is put in
\* front when the list lacks it
NormalizedOracleList ==
    LET best == oracle_reply.result.best_slot_id
        rec  == oracle_reply.result.recommended_slot_ids
    IN  IF best \in Elems(rec) THEN rec ELSE <<best>> \o rec

FirstN(xs, n) == SubSeq(xs, 1, IF Len(xs) < n THEN Len(xs) ELSE n)

\* C13: in Normal mode the answer's recommended_slot_ids is the oracle's list
\* after the best-id normalization cut to its first 10 entries: never more
\* than 10 entries, no candidate added that the oracle did not list
C13_NormalIsOracleListCutToTen ==
    (RankDone /\ NormalRequest)
        => /\ response.recommended_slot_ids = FirstN(NormalizedOracleList, 10)
           /\ Len(response.recommended_slot_ids) <= 10
           /\ Elems(response.recommended_slot_ids) \subseteq Elems(NormalizedOracleList)

\* an oracle list longer than 10 entries has been cut, and candidates the
\* oracle did not list were left out
C13_Witness ==
    /\ RankDone /\ NormalRequest
    /\ Len(oracle_reply.result.recommended_slot_ids) > 10
    /\ Len(response.recommended_slot_ids) = 10
    /\ ~(CandidateIds \subseteq Elems(response.recommended_slot_ids))

\* every entry of xs that is not best, in order
RestOf(xs, best) == Without(xs, best)

\* C14: the mode is decided by the priority More > Closest > Cheapest > Normal
\* and one mode's rules are applied: with the more flag set (also together
\* with closest or cheapest) a list shorter than the candidates is backfilled
\* to all candidates and no entry of the oracle's list is cut; otherwise with
\* closest or cheapest set nothing is added and nothing is cut; otherwise
\* nothing is added and the list is cut to 10
C14_ModePriority ==
    RankDone =>
        LET ui   == request.user_intent
            norm == NormalizedOracleList
            out  == response.recommended_slot_ids
            best == response.best_slot_id
        IN  /\ ui.is_more_request
                => /\ Len(norm) < Len(request.slots) => CandidateIds \subseteq Elems(out)
                   /\ RestOf(norm, best) = FirstN(RestOf(out, best), Len(RestOf(norm, best)))
                   /\ best \in Elems(out)
            /\ (~ui.is_more_request /\ (ui.is_closest_request \/ ui.is_cheapest_request))
                => /\ Elems(out) = Elems(norm)
                   /\ RestOf(out, best) = RestOf(norm, best)
            /\ NormalRequest
                => /\ Elems(out) \subseteq Elems(norm)
                   /\ Len(out) <= 10

\* the more flag together with the closest and cheapest flags: all candidates
\* were backfilled behind the oracle's one-element list
C14_Witness ==
    /\ RankDone
    /\ request.user_intent.is_more_request
    /\ request.user_intent.is_closest_request
    /\ request.user_intent.is_cheapest_request
    /\ Len(request.slots) = 3
    /\ Len(oracle_reply.result.recommended_slot_ids) = 1
    /\ Len(response.recommended_slot_ids) = 3
    /\ Elems(response.recommended_slot_ids) = CandidateIds

\* C16: within a request the external oracle is invoked at most once, and from
\* the moment the call has been issued (whether it then answers, fails or
\* returns unparsable output) no further call is made
C16_OracleCalledAtMostOnce ==
    /\ [](oracle_calls <= 1)
    /\ [][pc # "idle" => oracle_calls' = oracle_calls]_vars

\* a request whose single oracle call returned unparsable output has ended
\* with one call made
C16_Witness ==
    /\ OracleFailed
    /\ oracle_reply.error.kind = "unparsable"
    /\ oracle_calls = 1

\* C17: with two requests handled side by side in any interleaving, each
\* finished request's response is what its own request, the reply the oracle
\* gave to it and the clock reading at its return determine, and the one
\* object both requests read, the module-level client, is never written
C17_RequestsAreIndependent ==
    /\ [](\A h \in Handlers :
            frames[h].pc = "done"
                => frames[h].response =
                     IF delivered[h].ok
                     THEN Outcome(frames[h].request, delivered[h], frames[h].now)
                     ELSE BadRequest(GenerateJsonError(delivered[h].error)))
    /\ [][gemini_client' = gemini_client]_vars

\* both requests are finished with different replies, and the reply of one
\* arrived while the other was holding its own, not yet used
C17_Witness ==
    \E h \in Handlers, g \in Handlers :
        /\ h # g
        /\ frames[h].pc = "done" /\ frames[g].pc = "done"
        /\ delivered[h].ok /\ delivered[g].ok
        /\ frames[g].overlap
        /\ delivered[h] # delivered[g]
        /\ frames[h].request.op # frames[g].request.op

\* the request called validate_start_hour and it rejected the start hour
ValidatorRejected == validation.called /\ ~validation.verdict.ok

\* the mandatory fields the guess lacks: location absent or blank, duration
\* absent or below 1, start hour absent or blank
MissingFields(g) ==
    (IF LocationGiven(g) THEN {} ELSE {"location"})
        \cup (IF DurationGiven(g) THEN {} ELSE {"duration"})
        \cup (IF StartHourBlank(g) THEN {"start_hour"} ELSE {})

\* C18: parse_intent answers with a Clarification exactly when the oracle's
\* needs_clarification flag is set, or a mandatory field is missing, or the
\* validator rejected the start hour; otherwise the answer is the Complete
\* intent (stated for guesses whose fields have the schema's types)
C18_ClarificationIffFlagOrMissingOrRejected ==
    (IntentDone /\ TypedGuess(oracle_reply.result))
        => /\ response.kind \in {"Clarification", "Complete"}
           /\ response.kind = "Clarification"
                <=> \/ Truthy(oracle_reply.result.needs_clarification)
                    \/ MissingFields(oracle_reply.result) # {}
                    \/ ValidatorRejected

\* the oracle's flag is false, only the duration is missing (0 minutes), and
\* the answer is a Clarification all the same
C18_Witness ==
    /\ IntentDone
    /\ oracle_reply.result.needs_clarification = Bool(FALSE)
    /\ oracle_reply.result.duration_minutes = Num(0)
    /\ MissingFields(oracle_reply.result) = {"duration"}
    /\ ~ValidatorRejected
    /\ response.kind = "Clarification"

\* C19: when a Clarification is returned, the oracle sent a non-empty
\* clarification_message and the validator did not reject the start hour, the
\* Clarification carries the oracle's message unchanged, whichever fields are
\* missing
C19_OracleMessageVerbatim ==
    ( /\ IntentDone
      /\ response.kind = "Clarification"
      /\ MsgTruthy(oracle_reply.result.clarification_message)
      /\ ~ValidatorRejected )
        => response.clarification_message = oracle_reply.result.clarification_message

\* the oracle's message asks for the start hour while location and duration
\* are what is missing, and it is returned as it came
C19_Witness ==
    /\ IntentDone
    /\ MissingFields(oracle_reply.result) = {"location", "duration"}
    /\ ~ValidatorRejected
    /\ MsgTruthy(oracle_reply.result.clarification_message)
    /\ oracle_reply.result.clarification_message.asks = {"start_hour"}
    /\ response.kind = "Clarification"
    /\ response.clarification_message = oracle_reply.result.clarification_message

\* the fixed prompt for each non-empty set of missing fields
PromptOf(missing) ==
    CASE missing = {"location", "duration", "start_hour"} -> AskAllMsg
      [] missing = {"location", "duration"} -> AskLocationDurationMsg
      [] missing = {"location", "start_hour"} -> AskLocationStartMsg
      [] missing = {"duration", "start_hour"} -> AskDurationStartMsg
      [] missing = {"location"} -> AskLocationMsg
      [] missing = {"duration"} -> AskDurationMsg
      [] missing = {"start_hour"} -> AskStartMsg

\* C20: when a Clarification is returned, the oracle sent no message (null or
\* empty) and the validator did not reject, the message is the fixed prompt of
\* the set of missing fields: it asks for exactly those fields, the prompts of
\* two different sets differ, and with no field missing it is the generic
\* need-more-information prompt
C20_DefaultPromptByMissingSet ==
    ( /\ IntentDone
      /\ response.kind = "Clarification"
      /\ ~MsgTruthy(oracle_reply.result.clarification_message)
      /\ ~ValidatorRejected )
        => LET missing == MissingFields(oracle_reply.result)
               msg     == response.clarification_message
           IN  IF missing = {} THEN msg = GenericMsg
               ELSE /\ msg = PromptOf(missing)
                    /\ msg.asks = missing
                    /\ \A other \in (SUBSET {"location", "duration", "start_hour"}) \ {{}, missing} :
                          /\ PromptOf(other).id # msg.id
                          /\ GenericMsg.id # msg.id

\* duration and start hour are missing, the oracle sent no message, and the
\* prompt asks for these two
C20_Witness ==
    /\ IntentDone
    /\ MissingFields(oracle_reply.result) = {"duration", "start_hour"}
    /\ ~MsgTruthy(oracle_reply.result.clarification_message)
    /\ response.kind = "Clarification"
    /\ response.clarification_message = AskDurationStartMsg

\* C21: a Clarification carries none of the oracle's extracted values: empty
\* location, duration 1, null start hour, null max price, preferences and
\* radius, and the more / closest / cheapest flags false, whatever the guess
C21_ClarificationCarriesPlaceholders ==
    (IntentDone /\ response.kind = "Clarification")
        => /\ response.location_query = Str(<<>>)
           /\ response.duration_minutes = Num(1)
           /\ response.start_hour = None
           /\ response.max_price = None
           /\ response.preferences = None
           /\ response.requested_radius_km = None
           /\ response.is_more_request = Bool(FALSE)
           /\ response.is_closest_request = Bool(FALSE)
           /\ response.is_cheapest_request = Bool(FALSE)

\* the oracle extracted a location, a duration, a price, preferences and set
\* the more flag, the start hour is missing, and the Clarification shows none
\* of them
C21_Witness ==
    /\ IntentDone
    /\ LocationGiven(oracle_reply.result)
    /\ oracle_reply.result.duration_minutes = Num(120)
    /\ oracle_reply.result.max_price # None
    /\ oracle_reply.result.preferences # None
    /\ oracle_reply.result.is_more_request = Bool(TRUE)
    /\ response.kind = "Clarification"
    /\ response.location_query = Str(<<>>)
    /\ response.max_price = None

\* C22: in More mode every candidate id appears in the returned
\* recommended_slot_ids, whatever list the oracle returned (repeated ids and
\* ids outside the candidates included); stated for a best_slot_id that is a
\* candidate
C22_MoreCoversEveryCandidate ==
    ( /\ RankDone /\ Mode(request.user_intent) = "more"
      /\ oracle_reply.result.best_slot_id \in CandidateIds )
        => CandidateIds \subseteq Elems(response.recommended_slot_ids)

\* the score the oracle's ranking gives an id, 0 when the ranking lacks it
OracleScore(sid) ==
    LET ranking == oracle_reply.result.ranking
    IN  IF \E i \in 1..Len(ranking) : ranking[i].slot_id = sid
        THEN ranking[CHOOSE i \in 1..Len(ranking) : ranking[i].slot_id = sid].score
        ELSE 0

\* distance_m of a candidate of the request
CandidateDistance(sid) ==
    request.slots[CHOOSE i \in 1..Len(request.slots) : request.slots[i].slot_id = sid].distance_m

\* the ids the More answer holds after the oracle's own entries
Backfilled ==
    LET best == response.best_slot_id
        own  == RestOf(NormalizedOracleList, best)
        rest == RestOf(response.recommended_slot_ids, best)
    IN  SubSeq(rest, Len(own) + 1, Len(rest))

\* C23: in More mode the answer is the oracle's own list in its order
\* (best_slot_id apart, which goes first) followed by the backfilled ids; these
\* are candidates the oracle's list lacks, each once, ordered by oracle score
\* descending (0 without a score) and, at equal score, by smaller distance_m
\* first; no entry of the oracle's list is dropped
C23_BackfillAppendedInFallbackOrder ==
    (RankDone /\ Mode(request.user_intent) = "more")
        => LET best == response.best_slot_id
               own  == RestOf(NormalizedOracleList, best)
               rest == RestOf(response.recommended_slot_ids, best)
               back == Backfilled
           IN  /\ Len(rest) >= Len(own)
               /\ SubSeq(rest, 1, Len(own)) = own
               /\ Elems(back) \subseteq CandidateIds \ Elems(NormalizedOracleList)
               /\ \A i, j \in 1..Len(back) :
                     i < j => /\ back[i] # back[j]
                              /\ \/ OracleScore(back[i]) > OracleScore(back[j])
                                 \/ /\ OracleScore(back[i]) = OracleScore(back[j])
                                    /\ CandidateDistance(back[i]) <= CandidateDistance(back[j])

\* s2 (350 m) precedes s3 (150 m) among the candidates, the oracle scores both
\* alike and lists only s1: s3 is backfilled before s2
C23_Witness ==
    /\ RankDone /\ Mode(request.user_intent) = "more"
    /\ AllSlotIds(request.slots) = <<"s1", "s2", "s3">>
    /\ oracle_reply.result.recommended_slot_ids = <<"s1">>
    /\ OracleScore("s2") = OracleScore("s3") /\ OracleScore("s2") > 0
    /\ Backfilled = <<"s3", "s2">>

\* C24: for a closest or cheapest request (more not set) the answer is the
\* oracle's list with best_slot_id at the front and its other entries in the
\* oracle's order: none is added, none is cut, however long the list is
C24_ClosestCheapestKeepsOracleList ==
    ( /\ RankDone /\ ~request.user_intent.is_more_request
      /\ (request.user_intent.is_closest_request \/ request.user_intent.is_cheapest_request) )
        => LET best == oracle_reply.result.best_slot_id
               rec  == oracle_reply.result.recommended_slot_ids
               out  == response.recommended_slot_ids
           IN  /\ out # <<>> /\ Head(out) = best
               /\ RestOf(out, best) = RestOf(rec, best)
               /\ Len(out) >= Len(RestOf(rec, best)) + 1

\* a cheapest request whose oracle list has more than 10 entries, best_slot_id
\* not first, and two candidates it does not name: all its entries are returned
C24_Witness ==
    /\ RankDone
    /\ ~request.user_intent.is_more_request /\ request.user_intent.is_cheapest_request
    /\ Len(request.slots) = 3
    /\ Len(oracle_reply.result.recommended_slot_ids) > 10
    /\ Head(oracle_reply.result.recommended_slot_ids) # oracle_reply.result.best_slot_id
    /\ Len(response.recommended_slot_ids) > 10
    /\ Head(response.recommended_slot_ids) = oracle_reply.result.best_slot_id

\* C25: the oracle's ranking and explanation are returned unchanged in a
\* successful response, also when a ranking entry's score lies outside [0, 1]
C25_RankingPassedThroughUnvalidated ==
    RankReplied
        => /\ response.kind = "Recommendation"
           /\ response.ranking = oracle_reply.result.ranking
           /\ response.explanation_for_user = oracle_reply.result.explanation_for_user

\* the characters of a sequence of formatted lines
RECURSIVE TotalLength(_)
TotalLength(lines) ==
    IF lines = <<>> THEN 0 ELSE MsgStrLen(Head(lines)) + TotalLength(Tail(lines))

PreferenceEntries(p) ==
    IF p.t \in {"dict", "prefs"} THEN { <<k, p.v[k]>> : k \in {x \in DOMAIN p.v : p.v[x] # None} }
    ELSE {}

\* parse_intent answered with the Complete intent
CompleteDone == IntentDone /\ response.kind = "Complete"

\* C27 as claimed: a Complete intent carries the max price, the preferences
\* and the requested radius exactly as the oracle returned them
C27_PassThroughUnchanged ==
    CompleteDone
        => /\ response.max_price = oracle_reply.result.max_price
           /\ response.requested_radius_km = oracle_reply.result.requested_radius_km
           /\ PreferenceEntries(response.preferences) = PreferenceEntries(oracle_reply.result.preferences)

\* C27 (amended): a Complete intent carries the max price and the requested
\* radius exactly as the oracle returned them, and of the oracle's preferences
\* the entries covered, safety_priority, accessibility and other, each
\* unchanged; it carries no other preference entry
C27_PassThroughOfKnownFields ==
    CompleteDone
        => /\ response.max_price = oracle_reply.result.max_price
           /\ response.requested_radius_km = oracle_reply.result.requested_radius_km
           /\ PreferenceEntries(response.preferences)
                = { e \in PreferenceEntries(oracle_reply.result.preferences) : e[1] \in PreferenceFields }

\* a Complete intent from a guess with a price, a radius and the preferences
\* covered and other
C27_Witness ==
    /\ CompleteDone
    /\ oracle_reply.result.max_price = Num(20)
    /\ oracle_reply.result.requested_radius_km = Num(3)
    /\ <<"other", Str(<<"e", "v">>)>> \in PreferenceEntries(oracle_reply.result.preferences)
    /\ <<"other", Str(<<"e", "v">>)>> \in PreferenceEntries(response.preferences)
    /\ response.max_price = Num(20)

\* C28: in every mode and for every oracle output the returned best_slot_id
\* is one of the returned recommended_slot_ids (stated for a best_slot_id that
\* is a candidate)
C28_BestIsRecommended ==
    (RankDone /\ response.best_slot_id \in CandidateIds)
        => InList(response.best_slot_id, response.recommended_slot_ids)

\* C29: within one parse-intent request validate_start_hour compares against
\* the clock reading that was stated to the oracle in its prompt, so a start
\* hour equal to that stated time is never rejected as being in the past
C29_OneClockReading ==
    (IntentDone /\ validation.called /\ validation.token = prompt_time)
        => /\ Strftime(validation.now) = prompt_time
           /\ validation.verdict.ok

\* C30: every successful parse-intent response has needs_clarification true
\* exactly when its start_hour is null, and whenever needs_clarification is
\* true its clarification_message is a non-empty string
C30_FlagStartHourMessage ==
    (IntentDone /\ response.status = 200)
        => /\ Truthy(response.needs_clarification) <=> response.start_hour = None
           /\ Truthy(response.needs_clarification) => MsgTruthy(response.clarification_message)

\* the oracle did not ask for a clarification and gave a start hour that has
\* passed: the response is flagged, has no start hour and carries a message
C30_Witness ==
    /\ IntentDone
    /\ response.status = 200
    /\ oracle_reply.result.needs_clarification = Bool(FALSE)
    /\ LocationGiven(oracle_reply.result) /\ DurationGiven(oracle_reply.result)
    /\ StartHourGivenPast(oracle_reply.result, validation.now)
    /\ response.needs_clarification = Bool(TRUE)
    /\ response.start_hour = None
    /\ MsgTruthy(response.clarification_message)

====
